---- MODULE Spec2Model ----
(***************************************************************************)
(* Model of the Leonardo bot (src/src/main.rs): the per-chat dialogue      *)
(* state machine, the conversion handler, the index-file insertion and the *)
(* git publish sequence that runs against one shared working tree.         *)
(*                                                                         *)
(* Strings are sequences of character codes, so that `contains`,           *)
(* `to_lowercase`, `lines`, `join` and `format!` are computed as the code  *)
(* computes them.                                                          *)
(***************************************************************************)
EXTENDS Integers, Sequences, FiniteSets, TLC

VARIABLES
    state,      \* InMemStorage<State>: chat id -> State (absent = default Start)
    last,       \* the handler run that was dispatched or ended most recently
    pc,         \* per chat: position inside receive_creation_confirmation
    loc,        \* per chat: the update and the locals of a running
                \* receive_creation_confirmation (lines 495-609)
    wt,         \* the shared working tree under PATH_TO_ICONS_OVERLAY
    refs,       \* local git references: ref name -> commit
    HEAD,       \* the ref name HEAD points at
    remote,     \* branches on origin: ref name -> commit
    budget,     \* publish runs the exploration may still start
    idx,        \* the input/result pair of the index-insertion specification
    img         \* the input/result pair of the binarize specification

vars == <<state, last, pc, loc, wt, refs, HEAD, remote, budget, idx, img>>

(***************************************************************************)
(* Bounds                                                                  *)
(***************************************************************************)
\* publish runs explored from two confirming sessions (PublishSpec); the
\* exploration ends with the last of them
MaxPublish == 2
\* publish runs explored after a full dialogue (Spec)
MaxDialoguePublish == 1
\* lines of an index file explored by the index-insertion specification
MaxLines == 4

Chats == {1, 2}

(***************************************************************************)
(* Text                                                                    *)
(***************************************************************************)
NL == 10
CR == 13
DOT == 46

\* str.contains(ch)
Contains(s, ch) == \E i \in 1..Len(s) : s[i] = ch

\* char::to_lowercase on the ASCII range
LowerChar(ch) == IF ch >= 65 /\ ch <= 90 THEN ch + 32 ELSE ch

\* String::to_lowercase
ToLowercase(s) == [i \in 1..Len(s) |-> LowerChar(s[i])]

\* Ord for String: a.cmp(&b) = Less (lexicographic by code): decided by the
\* first position where the two differ, else by length
StrLess(a, b) ==
    LET n == IF Len(a) < Len(b) THEN Len(a) ELSE Len(b)
        diff == {i \in 1..n : a[i] # b[i]}
    IN  IF diff = {} THEN Len(a) < Len(b)
        ELSE LET i == CHOOSE j \in diff : \A k \in diff : j <= k
             IN a[i] < b[i]

\* a comparator that does not fold the case
CaseSensitiveLess(a, b) == StrLess(a, b)

\* the comparator of sort_by at line 542: TRUE iff a orders strictly before b
LowerLess(a, b) == StrLess(ToLowercase(a), ToLowercase(b))

\* str::lines(): split at "\n", a final line terminator makes no empty line,
\* a "\r" before the "\n" is dropped
StripCR(l) == IF Len(l) > 0 /\ l[Len(l)] = CR THEN SubSeq(l, 1, Len(l) - 1) ELSE l

Lines(s) ==
    LET nls == {i \in 1..Len(s) : s[i] = NL}
        \* the position of the k-th line terminator; 0 for k = 0
        Term(k) == IF k = 0 THEN 0
                   ELSE CHOOSE i \in nls : Cardinality({j \in nls : j < i}) = k - 1
        terminated == Cardinality(nls)
        open == IF Len(s) > 0 /\ s[Len(s)] # NL THEN 1 ELSE 0
    IN  [k \in 1..(terminated + open) |->
            IF k <= terminated
            THEN StripCR(SubSeq(s, Term(k - 1) + 1, Term(k) - 1))
            ELSE SubSeq(s, Term(k - 1) + 1, Len(s))]

\* [String]::join("\n")
RECURSIVE Join(_)
Join(ls) ==
    IF Len(ls) = 0 THEN <<>>
    ELSE IF Len(ls) = 1 THEN ls[1]
    ELSE ls[1] \o <<NL>> \o Join(Tail(ls))

\* slice::sort_by is a stable sort: insertion after every element that does
\* not order after x
RECURSIVE InsertSorted(_, _)
InsertSorted(sorted, x) ==
    IF Len(sorted) = 0 THEN <<x>>
    ELSE IF LowerLess(x, Head(sorted)) THEN <<x>> \o sorted
    ELSE <<Head(sorted)>> \o InsertSorted(Tail(sorted), x)

RECURSIVE SortLines(_)
SortLines(ls) ==
    IF Len(ls) = 0 THEN <<>>
    ELSE InsertSorted(SortLines(SubSeq(ls, 1, Len(ls) - 1)), ls[Len(ls)])

(***************************************************************************)
(* format! strings of receive_creation_confirmation                       *)
(***************************************************************************)
\* "    <icon drawable=\"@drawable/themed_icon_"
IconLinePrefix == <<32, 32, 32, 32, 60, 105, 99, 111, 110, 32, 100, 114, 97, 119, 97, 98, 108, 101, 61, 34, 64, 100, 114, 97, 119, 97, 98, 108, 101, 47, 116, 104, 101, 109, 101, 100, 95, 105, 99, 111, 110, 95>>
\* "\" package=\""
IconLineMiddle == <<34, 32, 112, 97, 99, 107, 97, 103, 101, 61, 34>>
\* "\" />"
IconLineSuffix == <<34, 32, 47, 62>>

\* line 539
IconLine(icon_name, app_path) ==
    IconLinePrefix \o icon_name \o IconLineMiddle \o app_path \o IconLineSuffix

\* line 505: "bot/icon_{icon_name}"
BranchName(icon_name) == <<98, 111, 116, 47, 105, 99, 111, 110, 95>> \o icon_name
\* line 506: "refs/heads/{branch_name}"
RefsHeads == <<114, 101, 102, 115, 47, 104, 101, 97, 100, 115, 47>>
BranchRefspec(icon_name) == RefsHeads \o BranchName(icon_name)
\* line 507: "themed_icon_{icon_name}.xml"
VdFileName(icon_name) ==
    <<116, 104, 101, 109, 101, 100, 95, 105, 99, 111, 110, 95>> \o icon_name \o <<46, 120, 109, 108>>
\* line 508: "overlay: Add icon for {icon_name}"
CommitMsg(icon_name) ==
    <<111, 118, 101, 114, 108, 97, 121, 58, 32, 65, 100, 100, 32, 105, 99, 111, 110, 32, 102, 111, 114, 32>> \o icon_name
\* lines 576-578, 589: the integration branch "12.1"
MainBranch == <<49, 50, 46, 49>>
MainRef == RefsHeads \o MainBranch

(***************************************************************************)
(* Index insertion, lines 538-544                                          *)
(***************************************************************************)
\* an insertion after the first line only
InsertAt1(lines, line) == SubSeq(lines, 1, 1) \o <<line>> \o SubSeq(lines, 2, Len(lines))

\* Vec::insert(2, line): panics when 2 > len
InsertAt2(lines, line) == SubSeq(lines, 1, 2) \o <<line>> \o SubSeq(lines, 3, Len(lines))

\* lines[2..line_count - 1].sort_by(...)
SortInterior(lines) ==
    SubSeq(lines, 1, 2) \o SortLines(SubSeq(lines, 3, Len(lines) - 1)) \o <<lines[Len(lines)]>>

\* lines 538-544 on the text read at line 533: [ok, text]; ok = FALSE is the
\* panic of Vec::insert on a file of fewer than two lines
InsertEntry(prev_xml, line) ==
    LET lines0 == Lines(prev_xml) IN
    IF Len(lines0) < 2 THEN [ok |-> FALSE, text |-> prev_xml]
    ELSE [ok |-> TRUE, text |-> Join(SortInterior(InsertAt2(lines0, line)))]

(***************************************************************************)
(* Dialogue state, lines 39-70                                             *)
(***************************************************************************)
Start == [tag |-> "Start"]
ReceiveAppPath == [tag |-> "ReceiveAppPath"]
ConfirmingAppPath(app_path) == [tag |-> "ConfirmingAppPath", app_path |-> app_path]
ReceiveIconFile(app_path) == [tag |-> "ReceiveIconFile", app_path |-> app_path]
ReceiveIconName(app_path, file_id) ==
    [tag |-> "ReceiveIconName", app_path |-> app_path, file_id |-> file_id]
ReceiveDescription(app_path, file_id, icon_name) ==
    [tag |-> "ReceiveDescription", app_path |-> app_path, file_id |-> file_id,
     icon_name |-> icon_name]
ConfirmingCreation(vd_bytes, app_path, icon_name, description) ==
    [tag |-> "ConfirmingCreation", vd_bytes |-> vd_bytes, app_path |-> app_path,
     icon_name |-> icon_name, description |-> description]

(***************************************************************************)
(* Inbound updates                                                         *)
(***************************************************************************)
\* "/help", "/latest", "/addicon": the texts BotCommands parses (lines 72-81)
CmdHelp == <<47, 104, 101, 108, 112>>
CmdLatest == <<47, 108, 97, 116, 101, 115, 116>>
CmdAddIcon == <<47, 97, 100, 100, 105, 99, 111, 110>>

ParseCommand(text) ==
    IF text = CmdHelp THEN "Help"
    ELSE IF text = CmdLatest THEN "Latest"
    ELSE IF text = CmdAddIcon THEN "AddIcon"
    ELSE "None"

\* the texts a user sends in any state: "a.b", "B", "/addicon"; "/help" and
\* "/latest" are sent in the states that parse commands
Texts == {<<97, 46, 98>>, <<66>>, CmdAddIcon}
Commands == {CmdHelp, CmdLatest, CmdAddIcon}
\* icon names of the sessions PublishSpec starts from: "a.b", "B"
IconNames == {<<97, 46, 98>>, <<66>>}
FileIds == {"f1"}

TextMsg(t) == [kind |-> "text", text |-> t]
DocumentMsg(f) == [kind |-> "document", file_id |-> f]
OtherMsg == [kind |-> "other"]
Messages == {TextMsg(t) : t \in Texts} \cup {DocumentMsg(f) : f \in FileIds} \cup {OtherMsg}
CommandMessages == {TextMsg(t) : t \in Commands}

\* callback data of the two inline keyboards (lines 245, 470); "" stands for
\* a callback query without data
YesCorrect == "Yes, this is correct"
NoWrong == "No, this is wrong"
YesCreate == "Yes, create my request"
NoAbort == "No, abort"
CallbackData == {YesCorrect, NoWrong, YesCreate, NoAbort, ""}
Callback(d) == [kind |-> "callback", data |-> d]

\* the bytes svg2vd returns for the image behind file_id (line 467)
VdBytes(file_id) == [vd_of |-> file_id]

(***************************************************************************)
(* The record of a handler run                                             *)
(***************************************************************************)
\* chat: the chat, h: the endpoint, ev: the update, pre: the chat's state
\* when it was dispatched, res: "running", "ok" (returned Ok) or "err"
\* (returned Err), said: the texts delivered to the user, calls: the other
\* awaited operations with what each returned
NoRun == [chat |-> 0, h |-> "none", ev |-> OtherMsg, pre |-> Start, res |-> "ok",
          said |-> <<>>, calls |-> <<>>]

Run(c, h, ev, pre, res, said, calls) ==
    [chat |-> c, h |-> h, ev |-> ev, pre |-> pre, res |-> res, said |-> said,
     calls |-> calls]

Call(op, r) == [op |-> op, r |-> r]

NoLoc == [ev |-> OtherMsg, calls |-> <<>>, new_xml |-> <<>>, head |-> <<>>,
          tree |-> <<>>, main_ref |-> <<>>]

\* the dispatcher hands a chat's updates to its handlers one at a time
Busy(c) == pc[c] # "idle"

\* updates are dispatched while the exploration's publish budget lasts
Dispatching(c) == ~Busy(c) /\ budget > 0

\* a handler that runs to its end in one step: it leaves the repository alone
Handled(c, h, ev, res, said, calls, new_state) ==
    /\ state' = [state EXCEPT ![c] = new_state]
    /\ last' = Run(c, h, ev, state[c], res, said, calls)
    /\ UNCHANGED <<pc, loc, wt, refs, HEAD, remote, budget, idx, img>>

(***************************************************************************)
(* Dispatch, lines 129-169                                                 *)
(***************************************************************************)
\* the endpoint the dptree of main() selects for an update in a state
Endpoint(st, ev) ==
    IF ev.kind = "callback"
    THEN (IF st.tag = "ConfirmingAppPath" THEN "receive_app_path_confirmation"
          ELSE IF st.tag = "ConfirmingCreation" THEN "receive_creation_confirmation"
          ELSE "unhandled")
    ELSE (IF st.tag = "ReceiveAppPath" THEN "receive_app_path"
          ELSE IF st.tag = "ReceiveIconFile" THEN "receive_icon_file"
          ELSE IF st.tag = "ReceiveIconName" THEN "receive_icon_name"
          ELSE IF st.tag = "ReceiveDescription" THEN "receive_description"
          ELSE IF ev.kind = "text" /\ ParseCommand(ev.text) # "None" THEN "answer"
          ELSE "unhandled")

\* an update no branch of the tree accepts: the default handler drops it
unhandled(c) ==
    /\ Dispatching(c)
    /\ \E ev \in Messages \cup {Callback(d) : d \in CallbackData} :
          /\ Endpoint(state[c], ev) = "unhandled"
          /\ Handled(c, "unhandled", ev, "ok", <<>>, <<>>, state[c])

(***************************************************************************)
(* answer, lines 176-229                                                   *)
(***************************************************************************)
\* the outcome of one command: Help sends the descriptions, Latest fetches
\* the releases and sends them, AddIcon sends the prompt and then updates
AnswerOutcome(st, command, fetched, sent) ==
    IF command = "Help"
    THEN [res |-> IF sent THEN "ok" ELSE "err",
          said |-> IF sent THEN <<"descriptions">> ELSE <<>>,
          calls |-> <<>>, st |-> st]
    ELSE IF command = "Latest"
    THEN [res |-> IF fetched /\ sent THEN "ok" ELSE "err",
          said |-> IF fetched /\ sent THEN <<"releases">> ELSE <<>>,
          calls |-> <<Call("get_latest_releases", IF fetched THEN "ok" ELSE "err")>>,
          st |-> st]
    ELSE [res |-> IF sent THEN "ok" ELSE "err",
          said |-> IF sent THEN <<"Let's start!">> ELSE <<>>,
          calls |-> <<>>,
          st |-> IF sent THEN ReceiveAppPath ELSE st]

answer(c) ==
    /\ Dispatching(c)
    /\ \E ev \in CommandMessages, fetched \in BOOLEAN, sent \in BOOLEAN :
          /\ Endpoint(state[c], ev) = "answer"
          /\ ParseCommand(ev.text) = "Latest" \/ fetched
          /\ LET o == AnswerOutcome(state[c], ParseCommand(ev.text), fetched, sent)
             IN Handled(c, "answer", ev, o.res, o.said, o.calls, o.st)

(***************************************************************************)
(* receive_app_path, lines 231-278, with playstore_app_exists, 632-639     *)
(***************************************************************************)
\* receive_app_path without the '.' test and without the existence check
AppPathOutcomeUnchecked(st, ev, exists, sent) ==
    [res |-> IF sent THEN "ok" ELSE "err",
     said |-> IF sent THEN <<"Please attach a PNG">> ELSE <<>>,
     calls |-> <<>>,
     st |-> IF sent /\ ev.kind = "text" THEN ReceiveIconFile(ev.text) ELSE st]

\* exists: "error" (the HEAD request failed), "found" (status 200), "absent"
AppPathOutcome(st, ev, exists, sent) ==
    IF ev.kind # "text"
    THEN [res |-> IF sent THEN "ok" ELSE "err",
          said |-> IF sent THEN <<"Please send an app path.">> ELSE <<>>,
          calls |-> <<>>, st |-> st]
    ELSE IF ~Contains(ev.text, DOT)
    THEN [res |-> IF sent THEN "ok" ELSE "err",
          said |-> IF sent THEN <<"App path should contain at least a '.'">> ELSE <<>>,
          calls |-> <<>>, st |-> st]
    ELSE IF exists = "error"
    THEN [res |-> "err", said |-> <<>>, calls |-> <<Call("playstore_app_exists", "err")>>,
          st |-> st]
    ELSE IF exists = "absent"
    THEN [res |-> IF sent THEN "ok" ELSE "err",
          said |-> IF sent THEN <<"Could not find a playstore application">> ELSE <<>>,
          calls |-> <<Call("playstore_app_exists", "absent")>>,
          st |-> IF sent THEN ConfirmingAppPath(ev.text) ELSE st]
    ELSE [res |-> IF sent THEN "ok" ELSE "err",
          said |-> IF sent THEN <<"Please attach a PNG">> ELSE <<>>,
          calls |-> <<Call("playstore_app_exists", "found")>>,
          st |-> IF sent THEN ReceiveIconFile(ev.text) ELSE st]

receive_app_path(c) ==
    /\ Dispatching(c)
    /\ \E ev \in Messages, exists \in {"error", "found", "absent"}, sent \in BOOLEAN :
          /\ Endpoint(state[c], ev) = "receive_app_path"
          \* the existence check is reached only by a text with a '.'
          /\ (ev.kind = "text" /\ Contains(ev.text, DOT)) \/ exists = "found"
          /\ exists # "error" \/ sent
          /\ LET o == AppPathOutcome(state[c], ev, exists, sent)
             IN Handled(c, "receive_app_path", ev, o.res, o.said, o.calls, o.st)

(***************************************************************************)
(* receive_app_path_confirmation, lines 280-305                            *)
(***************************************************************************)
AppPathConfirmationOutcome(st, ev, sent) ==
    IF ev.data = ""
    THEN [res |-> "ok", said |-> <<>>, st |-> st]
    ELSE IF ev.data = YesCorrect
    THEN [res |-> IF sent THEN "ok" ELSE "err",
          said |-> IF sent THEN <<"Please attach a PNG">> ELSE <<>>,
          st |-> IF sent THEN ReceiveIconFile(st.app_path) ELSE st]
    ELSE [res |-> IF sent THEN "ok" ELSE "err",
          said |-> IF sent THEN <<"Aborting.">> ELSE <<>>,
          st |-> IF sent THEN Start ELSE st]

receive_app_path_confirmation(c) ==
    /\ Dispatching(c)
    /\ \E d \in CallbackData, sent \in BOOLEAN :
          /\ Endpoint(state[c], Callback(d)) = "receive_app_path_confirmation"
          /\ d # "" \/ sent
          /\ LET o == AppPathConfirmationOutcome(state[c], Callback(d), sent)
             IN Handled(c, "receive_app_path_confirmation", Callback(d), o.res, o.said,
                        <<>>, o.st)

(***************************************************************************)
(* receive_icon_file, lines 307-332                                        *)
(***************************************************************************)
IconFileOutcome(st, ev, sent) ==
    IF ev.kind = "document"
    THEN [res |-> IF sent THEN "ok" ELSE "err",
          said |-> IF sent THEN <<"Provide a name for this icon">> ELSE <<>>,
          st |-> IF sent THEN ReceiveIconName(st.app_path, ev.file_id) ELSE st]
    ELSE [res |-> IF sent THEN "ok" ELSE "err",
          said |-> IF sent THEN <<"Please attach an image.">> ELSE <<>>,
          st |-> st]

receive_icon_file(c) ==
    /\ Dispatching(c)
    /\ \E ev \in Messages, sent \in BOOLEAN :
          /\ Endpoint(state[c], ev) = "receive_icon_file"
          /\ LET o == IconFileOutcome(state[c], ev, sent)
             IN Handled(c, "receive_icon_file", ev, o.res, o.said, <<>>, o.st)

(***************************************************************************)
(* receive_icon_name, lines 334-360                                        *)
(***************************************************************************)
IconNameOutcome(st, ev, sent) ==
    IF ev.kind = "text"
    THEN [res |-> IF sent THEN "ok" ELSE "err",
          said |-> IF sent THEN <<"Finally, provide a short description">> ELSE <<>>,
          st |-> IF sent THEN ReceiveDescription(st.app_path, st.file_id, ev.text) ELSE st]
    ELSE [res |-> IF sent THEN "ok" ELSE "err",
          said |-> IF sent THEN <<"Please provide a name.">> ELSE <<>>,
          st |-> st]

receive_icon_name(c) ==
    /\ Dispatching(c)
    /\ \E ev \in Messages, sent \in BOOLEAN :
          /\ Endpoint(state[c], ev) = "receive_icon_name"
          /\ LET o == IconNameOutcome(state[c], ev, sent)
             IN Handled(c, "receive_icon_name", ev, o.res, o.said, <<>>, o.st)

(***************************************************************************)
(* receive_description, lines 362-493                                      *)
(***************************************************************************)
\* the handler with the tracer started before the image is binarized
DescriptionStepsTraceFirst ==
    << [kind |-> "say",  label |-> "Downloading image..."],
       [kind |-> "call", label |-> "get_file"],
       [kind |-> "call", label |-> "download_file"],
       [kind |-> "say",  label |-> "Tracing PNM to SVG..."],
       [kind |-> "call", label |-> "potrace"],
       [kind |-> "say",  label |-> "Converting PNG to black PNM..."],
       [kind |-> "call", label |-> "binarize"],
       [kind |-> "say",  label |-> "Converting SVG to VD..."],
       [kind |-> "call", label |-> "svg2vd"],
       [kind |-> "say",  label |-> "Done with conversion."],
       [kind |-> "say",  label |-> "icon.svg"] >>

\* the awaited operations of the handler, in program order
DescriptionSteps ==
    << [kind |-> "say",  label |-> "Downloading image..."],            \* 370
       [kind |-> "call", label |-> "get_file"],                        \* 374
       [kind |-> "call", label |-> "download_file"],                   \* 377
       [kind |-> "say",  label |-> "Converting PNG to black PNM..."],  \* 379
       [kind |-> "call", label |-> "binarize"],                        \* 382-410
       [kind |-> "say",  label |-> "Tracing PNM to SVG..."],           \* 412
       [kind |-> "call", label |-> "potrace"],                         \* 415-426
       [kind |-> "say",  label |-> "Converting SVG to VD..."],         \* 434
       [kind |-> "call", label |-> "svg2vd"],                          \* 440-451
       [kind |-> "say",  label |-> "Done with conversion."],           \* 459
       [kind |-> "say",  label |-> "icon.svg"] >>                      \* 475

\* the message that replaces the progress text when a converter exits non-zero
ExitMessage(label) ==
    IF label = "potrace" THEN "Failed to trace PNM to SVG."  \* 429
    ELSE "Failed to convert SVG to VD."                      \* 454

\* how one run goes: at = the first step that does not succeed (Len + 1: none),
\* how = "err" (the step returns Err and `?` propagates it), "exit" (a
\* converter exits non-zero and the failure text is sent), "exit_unsent" (it
\* exits non-zero and sending the failure text fails), "done"
DescriptionOutcomes ==
    {[at |-> i, how |-> "err"] : i \in 1..Len(DescriptionSteps)}
    \cup {[at |-> i, how |-> h] :
            i \in {j \in 1..Len(DescriptionSteps) :
                     DescriptionSteps[j].label \in {"potrace", "svg2vd"}},
            h \in {"exit", "exit_unsent"}}
    \cup {[at |-> Len(DescriptionSteps) + 1, how |-> "done"]}

\* the texts delivered by the first n steps
RECURSIVE SaidBy(_, _)
SaidBy(steps, n) ==
    IF n = 0 THEN <<>>
    ELSE SaidBy(steps, n - 1)
         \o (IF steps[n].kind = "say" THEN <<steps[n].label>> ELSE <<>>)

\* the operations among the first n steps, each returning Ok
RECURSIVE CallsBy(_, _)
CallsBy(steps, n) ==
    IF n = 0 THEN <<>>
    ELSE CallsBy(steps, n - 1)
         \o (IF steps[n].kind = "call" THEN <<Call(steps[n].label, "ok")>> ELSE <<>>)

\* msg.text().unwrap_or_default(), line 368
Description(ev) == IF ev.kind = "text" THEN ev.text ELSE <<>>

\* a handler that fills the icon name from a value kept outside the state
DescriptionOutcomeStale(st, ev, o) ==
    [res |-> "ok", said |-> <<>>, calls |-> <<>>,
     st |-> ConfirmingCreation(VdBytes(st.file_id), st.app_path, <<66>>, Description(ev))]

DescriptionOutcome(st, ev, o) ==
    LET said == SaidBy(DescriptionSteps, o.at - 1)
        calls == CallsBy(DescriptionSteps, o.at - 1)
    IN  IF o.how = "done"
        THEN [res |-> "ok", said |-> said, calls |-> calls,
              st |-> ConfirmingCreation(VdBytes(st.file_id), st.app_path,
                                        st.icon_name, Description(ev))]
        ELSE IF o.how = "err"
        THEN [res |-> "err", said |-> said,
              calls |-> IF DescriptionSteps[o.at].kind = "call"
                        THEN Append(calls, Call(DescriptionSteps[o.at].label, "err"))
                        ELSE calls,
              st |-> st]
        ELSE [res |-> IF o.how = "exit" THEN "ok" ELSE "err",
              said |-> IF o.how = "exit"
                       THEN Append(said, ExitMessage(DescriptionSteps[o.at].label))
                       ELSE said,
              calls |-> Append(calls, Call(DescriptionSteps[o.at].label, "exit")),
              st |-> st]

receive_description(c) ==
    /\ Dispatching(c)
    /\ \E ev \in Messages, o \in DescriptionOutcomes :
          /\ Endpoint(state[c], ev) = "receive_description"
          /\ LET r == DescriptionOutcome(state[c], ev, o)
             IN Handled(c, "receive_description", ev, r.res, r.said, r.calls, r.st)

(***************************************************************************)
(* The repository under PATH_TO_ICONS_OVERLAY                              *)
(***************************************************************************)
\* grayscale_icon_map.xml on the integration branch: a two-line head, one
\* entry ("m" -> "m.m") and the closing line, ending with a line terminator
XmlDecl == <<60, 63, 120, 109, 108, 63, 62>>
IconsOpen == <<60, 105, 99, 111, 110, 115, 62>>
IconsClose == <<60, 47, 105, 99, 111, 110, 115, 62>>
BaseXml == Join(<<XmlDecl, IconsOpen, IconLine(<<109>>, <<109, 46, 109>>), IconsClose>>) \o <<NL>>

\* a tree: the drawable files (pairs <<file name, bytes>>) and the index file
BaseTree == [drawable |-> {}, xml |-> BaseXml]
BaseCommit == [msg |-> <<>>, tree |-> BaseTree, parents |-> <<>>]

FileAt(tree, name) == {f \in tree.drawable : f[1] = name}

\* fs::write: create or replace
WriteFile(tree, name, bytes) ==
    [tree EXCEPT !.drawable = (@ \ FileAt(tree, name)) \cup {<<name, bytes>>}]

RECURSIVE IsAncestor(_, _)
IsAncestor(a, b) ==
    \/ a = b
    \/ \E i \in 1..Len(b.parents) : IsAncestor(a, b.parents[i])

\* git_checkout_tree with the default (safe) strategy: a path whose working
\* copy equals the baseline (the tree of HEAD) takes the target's content, a
\* path the target does not change keeps its working copy, and a path that
\* both differ on is a conflict, which fails the checkout as a whole
Conflict(w, b, t) == w # b /\ t # b /\ w # t
Merged(w, b, t) == IF w = b THEN t ELSE w

SafeCheckout(w, base, target) ==
    LET names == {f[1] : f \in w.drawable \cup base.drawable \cup target.drawable}
    IN  [ok |-> /\ ~Conflict(w.xml, base.xml, target.xml)
                /\ \A n \in names :
                      ~Conflict(FileAt(w, n), FileAt(base, n), FileAt(target, n)),
         tree |-> [drawable |-> UNION {Merged(FileAt(w, n), FileAt(base, n), FileAt(target, n)) :
                                         n \in names},
                   xml |-> Merged(w.xml, base.xml, target.xml)]]

(***************************************************************************)
(* receive_creation_confirmation, lines 495-609                            *)
(***************************************************************************)
\* a handler entry that spawns the closure whatever the choice is
CreationStartOutcomeAlways(st, ev, env_ok, sent) ==
    [res |-> "running", said |-> <<>>, st |-> st, calls |-> <<Call("env", "ok")>>,
     pc |-> "read_xml"]

\* the handler's entry: the choice is read and, on "yes", the blocking
\* closure is spawned (501-532); any other choice aborts (600-604)
CreationStartOutcome(st, ev, env_ok, sent) ==
    IF ev.data = ""
    THEN [res |-> "ok", said |-> <<>>, st |-> st, calls |-> <<>>, pc |-> "idle"]
    ELSE IF ev.data = YesCreate
    THEN [res |-> IF env_ok THEN "running" ELSE "err", said |-> <<>>, st |-> st,
          calls |-> <<Call("env", IF env_ok THEN "ok" ELSE "err")>>,
          pc |-> IF env_ok THEN "read_xml" ELSE "idle"]
    ELSE [res |-> IF sent THEN "ok" ELSE "err",
          said |-> IF sent THEN <<"Aborting.">> ELSE <<>>,
          st |-> IF sent THEN Start ELSE st, calls |-> <<>>, pc |-> "idle"]

receive_creation_confirmation(c) ==
    /\ Dispatching(c)
    /\ \E d \in CallbackData, env_ok \in BOOLEAN, sent \in BOOLEAN :
          /\ Endpoint(state[c], Callback(d)) = "receive_creation_confirmation"
          /\ d = YesCreate \/ env_ok
          /\ d \notin {"", YesCreate} \/ sent
          /\ LET o == CreationStartOutcome(state[c], Callback(d), env_ok, sent)
             IN /\ state' = [state EXCEPT ![c] = o.st]
                /\ last' = Run(c, "receive_creation_confirmation", Callback(d), state[c],
                               o.res, o.said, o.calls)
                /\ pc' = [pc EXCEPT ![c] = o.pc]
                /\ loc' = [loc EXCEPT ![c] = IF o.pc = "idle" THEN @
                                             ELSE [@ EXCEPT !.ev = Callback(d), !.calls = o.calls]]
                /\ budget' = IF o.pc = "idle" THEN budget ELSE budget - 1
          /\ UNCHANGED <<wt, refs, HEAD, remote, idx, img>>

\* the record of the run of chat c so far
Running(c, res, step, r) ==
    Run(c, "receive_creation_confirmation", loc[c].ev, state[c], res, <<>>,
        Append(loc[c].calls, Call(step, r)))

\* a step of the closure returns Err (or panics): `.await??` at line 582
\* propagates it and the handler ends there
Failed(c, step) ==
    /\ pc' = [pc EXCEPT ![c] = "idle"]
    /\ loc' = [loc EXCEPT ![c] = NoLoc]
    /\ last' = Running(c, "err", step, "err")
    /\ UNCHANGED <<state, budget, idx, img>>

\* a step of the closure succeeds and leaves the locals new_loc
Stepped(c, step, next, new_loc) ==
    /\ pc' = [pc EXCEPT ![c] = next]
    /\ loc' = [loc EXCEPT ![c] = [new_loc EXCEPT !.calls = Append(@, Call(step, "ok"))]]
    /\ last' = Running(c, "running", step, "ok")
    /\ UNCHANGED <<state, budget, idx, img>>

\* 533-544: read the index file and build the new text
read_xml(c) ==
    /\ pc[c] = "read_xml"
    /\ \E ok \in BOOLEAN :
          LET r == InsertEntry(wt.xml, IconLine(state[c].icon_name, state[c].app_path))
          IN IF ok /\ r.ok
             THEN Stepped(c, "read_xml", "write_vd", [loc[c] EXCEPT !.new_xml = <<r.text>>])
             ELSE Failed(c, "read_xml")
    /\ UNCHANGED <<wt, refs, HEAD, remote>>

\* 546: fs::write(vd_file_path, vd_bytes)
write_vd(c) ==
    /\ pc[c] = "write_vd"
    /\ \E ok \in BOOLEAN :
          IF ok
          THEN /\ Stepped(c, "write_vd", "write_xml", loc[c])
               /\ wt' = WriteFile(wt, VdFileName(state[c].icon_name), state[c].vd_bytes)
          ELSE Failed(c, "write_vd") /\ UNCHANGED wt
    /\ UNCHANGED <<refs, HEAD, remote>>

\* 547: fs::write(xml_file_path, new_xml)
write_xml(c) ==
    /\ pc[c] = "write_xml"
    /\ \E ok \in BOOLEAN :
          IF ok
          THEN /\ Stepped(c, "write_xml", "open_head", loc[c])
               /\ wt' = [wt EXCEPT !.xml = loc[c].new_xml[1]]
          ELSE Failed(c, "write_xml") /\ UNCHANGED wt
    /\ UNCHANGED <<refs, HEAD, remote>>

\* 549-551: Repository::open, repo.head()?.peel_to_commit()
open_head(c) ==
    /\ pc[c] = "open_head"
    /\ \E ok \in BOOLEAN :
          IF ok
          THEN Stepped(c, "open_head", "branch", [loc[c] EXCEPT !.head = <<refs[HEAD]>>])
          ELSE Failed(c, "open_head")
    /\ UNCHANGED <<wt, refs, HEAD, remote>>

\* 552: repo.branch(&branch_name, &head, true); libgit2 refuses to overwrite
\* the branch HEAD is on
branch(c) ==
    /\ pc[c] = "branch"
    /\ \E ok \in BOOLEAN :
          IF ok /\ HEAD # BranchRefspec(state[c].icon_name)
          THEN /\ Stepped(c, "branch", "set_head", loc[c])
               /\ refs' = (BranchRefspec(state[c].icon_name) :> loc[c].head[1]) @@ refs
          ELSE Failed(c, "branch") /\ UNCHANGED refs
    /\ UNCHANGED <<wt, HEAD, remote>>

\* 553: repo.set_head(<the new branch>)
set_head(c) ==
    /\ pc[c] = "set_head"
    /\ \E ok \in BOOLEAN :
          IF ok
          THEN /\ Stepped(c, "set_head", "add_all", loc[c])
               /\ HEAD' = BranchRefspec(state[c].icon_name)
          ELSE Failed(c, "set_head") /\ UNCHANGED HEAD
    /\ UNCHANGED <<wt, refs, remote>>

\* 555-560: index.add_all(["*"]) and write_tree: the tree is the working tree
add_all(c) ==
    /\ pc[c] = "add_all"
    /\ \E ok \in BOOLEAN :
          IF ok
          THEN Stepped(c, "add_all", "head2", [loc[c] EXCEPT !.tree = <<wt>>])
          ELSE Failed(c, "add_all")
    /\ UNCHANGED <<wt, refs, HEAD, remote>>

\* 562-563: repo.signature(), repo.head()?.peel_to_commit()
head2(c) ==
    /\ pc[c] = "head2"
    /\ \E ok \in BOOLEAN :
          IF ok
          THEN Stepped(c, "head2", "commit", [loc[c] EXCEPT !.head = <<refs[HEAD]>>])
          ELSE Failed(c, "head2")
    /\ UNCHANGED <<wt, refs, HEAD, remote>>

\* 564: repo.commit(Some("HEAD"), ..): the ref HEAD points at moves to the new
\* commit; libgit2 refuses when that ref's tip is not the first parent
commit(c) ==
    /\ pc[c] = "commit"
    /\ \E ok \in BOOLEAN :
          IF ok /\ refs[HEAD] = loc[c].head[1]
          THEN /\ Stepped(c, "commit", "checkout_head", loc[c])
               /\ refs' = [refs EXCEPT ![HEAD] =
                             [msg |-> CommitMsg(state[c].icon_name),
                              tree |-> loc[c].tree[1],
                              parents |-> loc[c].head]]
          ELSE Failed(c, "commit") /\ UNCHANGED refs
    /\ UNCHANGED <<wt, HEAD, remote>>

\* 565: repo.checkout_head(None): baseline and target are both the tree of
\* HEAD, so no path changes
checkout_head(c) ==
    /\ pc[c] = "checkout_head"
    /\ \E ok \in BOOLEAN :
          IF ok
          THEN Stepped(c, "checkout_head", "push", loc[c])
          ELSE Failed(c, "checkout_head")
    /\ UNCHANGED <<wt, refs, HEAD, remote>>

\* 567-574: remote.push(&[&branch_refspec], ..): a new branch or a
\* fast-forward updates origin, anything else is rejected
push(c) ==
    /\ pc[c] = "push"
    /\ \E ok \in BOOLEAN :
          LET ref == BranchRefspec(state[c].icon_name) IN
          IF /\ ok
             /\ ref \in DOMAIN refs
             /\ ref \in DOMAIN remote => IsAncestor(remote[ref], refs[ref])
          THEN /\ Stepped(c, "push", "revparse", loc[c])
               /\ remote' = (ref :> refs[ref]) @@ remote
          ELSE Failed(c, "push") /\ UNCHANGED remote
    /\ UNCHANGED <<wt, refs, HEAD>>

\* 576: repo.revparse_single("12.1")
revparse(c) ==
    /\ pc[c] = "revparse"
    /\ \E ok \in BOOLEAN :
          IF ok
          THEN Stepped(c, "revparse", "checkout_tree", [loc[c] EXCEPT !.main_ref = <<refs[MainRef]>>])
          ELSE Failed(c, "revparse")
    /\ UNCHANGED <<wt, refs, HEAD, remote>>

\* 577: repo.checkout_tree(&main_ref, None)
checkout_tree(c) ==
    /\ pc[c] = "checkout_tree"
    /\ \E ok \in BOOLEAN :
          LET r == SafeCheckout(wt, refs[HEAD].tree, loc[c].main_ref[1].tree) IN
          IF ok /\ r.ok
          THEN /\ Stepped(c, "checkout_tree", "set_head_main", loc[c])
               /\ wt' = r.tree
          ELSE Failed(c, "checkout_tree") /\ UNCHANGED wt
    /\ UNCHANGED <<refs, HEAD, remote>>

\* 578: repo.set_head("refs/heads/12.1"); the closure returns Ok
set_head_main(c) ==
    /\ pc[c] = "set_head_main"
    /\ \E ok \in BOOLEAN :
          IF ok
          THEN /\ Stepped(c, "set_head_main", "merge_request", loc[c])
               /\ HEAD' = MainRef
          ELSE Failed(c, "set_head_main") /\ UNCHANGED HEAD
    /\ UNCHANGED <<wt, refs, remote>>

\* a handler that calls dialogue.exit() before it posts the merge request
MergeRequestOutcomeExitFirst(st, mr, sent) ==
    [res |-> IF mr # "err" /\ sent THEN "ok" ELSE "err",
     said |-> IF mr # "err" /\ sent THEN <<"Created.">> ELSE <<>>,
     st |-> Start]

\* 584-604 after the closure returned Ok. mr: "err" (GITLAB_TOKEN unset or
\* the request failed to send: `?` propagates), "rejected" (the server
\* answered with an error status, which send() returns as Ok), "created"
MergeRequestOutcome(st, mr, sent) ==
    IF mr = "err"
    THEN [res |-> "err", said |-> <<>>, st |-> st]
    ELSE [res |-> IF sent THEN "ok" ELSE "err",
          said |-> IF sent THEN <<"Created.">> ELSE <<>>,
          st |-> IF sent THEN Start ELSE st]

merge_request(c) ==
    /\ pc[c] = "merge_request"
    /\ \E mr \in {"err", "rejected", "created"}, sent \in BOOLEAN :
          /\ mr # "err" \/ sent
          /\ LET o == MergeRequestOutcome(state[c], mr, sent)
             IN /\ state' = [state EXCEPT ![c] = o.st]
                /\ last' = Run(c, "receive_creation_confirmation", loc[c].ev, state[c],
                               o.res, o.said, Append(loc[c].calls, Call("merge_request", mr)))
    /\ pc' = [pc EXCEPT ![c] = "idle"]
    /\ loc' = [loc EXCEPT ![c] = NoLoc]
    /\ UNCHANGED <<wt, refs, HEAD, remote, budget, idx, img>>

(***************************************************************************)
(* The bot                                                                 *)
(***************************************************************************)
Repository ==
    /\ wt = BaseTree
    /\ refs = (MainRef :> BaseCommit)
    /\ HEAD = MainRef
    /\ remote = (MainRef :> BaseCommit)

Init ==
    /\ state = [c \in Chats |-> Start]
    /\ last = NoRun
    /\ pc = [c \in Chats |-> "idle"]
    /\ loc = [c \in Chats |-> NoLoc]
    /\ Repository
    /\ budget = MaxDialoguePublish
    /\ idx = <<>>
    /\ img = <<>>

Next ==
    \E c \in Chats :
        \/ unhandled(c)
        \/ answer(c)
        \/ receive_app_path(c)
        \/ receive_app_path_confirmation(c)
        \/ receive_icon_file(c)
        \/ receive_icon_name(c)
        \/ receive_description(c)
        \/ receive_creation_confirmation(c)
        \/ read_xml(c)
        \/ write_vd(c)
        \/ write_xml(c)
        \/ open_head(c)
        \/ branch(c)
        \/ set_head(c)
        \/ add_all(c)
        \/ head2(c)
        \/ commit(c)
        \/ checkout_head(c)
        \/ push(c)
        \/ revparse(c)
        \/ checkout_tree(c)
        \/ set_head_main(c)
        \/ merge_request(c)

Spec == Init /\ [][Next]_vars

(***************************************************************************)
(* The dialogue on its own: the handlers' entries, with a spawned closure  *)
(* not yet scheduled                                                       *)
(***************************************************************************)
DialogueNext ==
    \E c \in Chats :
        \/ unhandled(c)
        \/ answer(c)
        \/ receive_app_path(c)
        \/ receive_app_path_confirmation(c)
        \/ receive_icon_file(c)
        \/ receive_icon_name(c)
        \/ receive_description(c)
        \/ receive_creation_confirmation(c)

DialogueSpec == Init /\ [][DialogueNext]_vars

(***************************************************************************)
(* Two sessions that have reached ConfirmingCreation                       *)
(***************************************************************************)
\* the file each session uploaded
FileOf(c) == IF c = 1 THEN "f1" ELSE "f2"

PublishInit ==
    /\ \E n \in [Chats -> IconNames] :
          state = [c \in Chats |->
                     ConfirmingCreation(VdBytes(FileOf(c)), <<97, 46, 98>>, n[c], <<66>>)]
    /\ last = NoRun
    /\ pc = [c \in Chats |-> "idle"]
    /\ loc = [c \in Chats |-> NoLoc]
    /\ Repository
    /\ budget = MaxPublish
    /\ idx = <<>>
    /\ img = <<>>

\* only the buttons are pressed
PublishNext ==
    \E c \in Chats :
        \/ receive_creation_confirmation(c)
        \/ read_xml(c)
        \/ write_vd(c)
        \/ write_xml(c)
        \/ open_head(c)
        \/ branch(c)
        \/ set_head(c)
        \/ add_all(c)
        \/ head2(c)
        \/ commit(c)
        \/ checkout_head(c)
        \/ push(c)
        \/ revparse(c)
        \/ checkout_tree(c)
        \/ set_head_main(c)
        \/ merge_request(c)

PublishSpec == PublishInit /\ [][PublishNext]_vars

(***************************************************************************)
(* Index insertion on its own: every index file of up to MaxLines lines    *)
(***************************************************************************)
\* the lines an index file is made of: the two head lines, the closing
\* line, two entries ("A" and "c" for "m.m") and the empty line
IndexLines ==
    {XmlDecl, IconsOpen, IconsClose, IconLine(<<65>>, <<109, 46, 109>>),
     IconLine(<<99>>, <<109, 46, 109>>), <<>>}
\* the icon names of the entry that is inserted: "a", and "D", which sorts
\* after "c" without regard to case and before it by code point
IndexNames == {<<97>>, <<68>>}

IndexInit ==
    /\ \E n \in 0..MaxLines, nl \in BOOLEAN, name \in IndexNames :
          \E ls \in [1..n -> IndexLines] :
             idx = [phase |-> "input",
                    text |-> Join(ls) \o (IF nl THEN <<NL>> ELSE <<>>),
                    line |-> IconLine(name, <<97, 46, 98>>),
                    result |-> [ok |-> FALSE, text |-> <<>>]]
    /\ state = [c \in Chats |-> Start]
    /\ last = NoRun
    /\ pc = [c \in Chats |-> "idle"]
    /\ loc = [c \in Chats |-> NoLoc]
    /\ Repository
    /\ budget = 0
    /\ img = <<>>

\* lines 538-544 applied to the text
insert_entry ==
    /\ idx.phase = "input"
    /\ idx' = [idx EXCEPT !.phase = "result", !.result = InsertEntry(idx.text, idx.line)]
    /\ UNCHANGED <<state, last, pc, loc, wt, refs, HEAD, remote, budget, img>>

IndexSpec == IndexInit /\ [][insert_entry]_vars

(***************************************************************************)
(* Properties                                                              *)
(***************************************************************************)
Ended == last.res # "running"
Called(op, r) == \E i \in 1..Len(last.calls) : last.calls[i] = Call(op, r)
Invoked(ops) == \E i \in 1..Len(last.calls) : last.calls[i].op \in ops
PostState == state[last.chat]

ConversionOps == {"binarize", "potrace", "svg2vd"}
PublisherOps ==
    {"env", "read_xml", "write_vd", "write_xml", "open_head", "branch", "set_head",
     "add_all", "head2", "commit", "checkout_head", "push", "revparse",
     "checkout_tree", "set_head_main", "merge_request"}

\* the session has touched the shared working tree (its first file is
\* written) and has not yet put HEAD back on the integration branch
InPublish(c) ==
    pc[c] \in {"write_xml", "open_head", "branch", "set_head", "add_all", "head2",
               "commit", "checkout_head", "push", "revparse", "checkout_tree",
               "set_head_main"}

\* C1: publish runs are mutually exclusive: at most one session is between
\* its first write to the shared working tree and the restoring of the
\* integration branch.
C1_MutualExclusion ==
    \A c1, c2 \in Chats : c1 # c2 => ~(InPublish(c1) /\ InPublish(c2))

\* the commit a session with icon name n and chat c is meant to leave on its
\* branch: the integration tip plus its own drawable and its own index line
OwnCommit(n, c) ==
    [msg |-> CommitMsg(n),
     tree |-> [drawable |-> {<<VdFileName(n), VdBytes(FileOf(c))>>},
               xml |-> InsertEntry(BaseXml, IconLine(n, <<97, 46, 98>>)).text],
     parents |-> <<BaseCommit>>]

\* both sessions confirmed and both runs went through every repository
\* step without an error
BothRan == \A c \in Chats : pc[c] = "merge_request"

\* C2: when two sessions with different icon names both confirm and both
\* runs complete, the repository holds both branches and each branch's
\* commit holds exactly its own session's drawable and index line.
C2_BothBranchesIntact ==
    BothRan =>
       \E n \in [Chats -> IconNames] :
          \A c \in Chats :
             /\ BranchRefspec(n[c]) \in DOMAIN refs
             /\ BranchRefspec(n[c]) \in DOMAIN remote
             /\ refs[BranchRefspec(n[c])] = OwnCommit(n[c], c)
             /\ remote[BranchRefspec(n[c])] = OwnCommit(n[c], c)

YesRun ==
    last.h = "receive_creation_confirmation" /\ last.ev.data = YesCreate /\ Ended

\* C3: after a "yes" from ConfirmingCreation the session is in Start whether
\* the publish run succeeded or failed at any step.
C3_YesEndsInStart == YesRun => PostState = Start

ConversionFailed ==
    /\ last.h = "receive_description"
    /\ \E op \in ConversionOps : Called(op, "err") \/ Called(op, "exit")

\* C4: when a stage of the conversion (binarize, trace, recode) fails, the
\* failure is reported to the user and the session's state becomes Start.
C4_ConversionFailureAborts ==
    ConversionFailed =>
       /\ PostState = Start
       /\ \E i \in 1..Len(last.said) :
             last.said[i] \in {ExitMessage("potrace"), ExitMessage("svg2vd")}

\* C5: when the app-exists check fails with a network error, a message is
\* sent to the user and the session's state becomes Start.
C5_LookupFailureAborts ==
    (last.h = "receive_app_path" /\ Called("playstore_app_exists", "err")) =>
       /\ PostState = Start
       /\ last.said # <<>>

AppPathText == last.h = "receive_app_path" /\ last.ev.kind = "text"
ValidationPrompt == "App path should contain at least a '.'"

\* C6 as stated: from ReceiveAppPath every text without '.' leaves the state
\* unchanged and produces the validation prompt, and every text with '.',
\* once the existence check answers, advances to ConfirmingAppPath (absent)
\* or ReceiveIconFile (found) carrying that text.
C6_AsStated ==
    AppPathText =>
       IF ~Contains(last.ev.text, DOT)
       THEN PostState = last.pre /\ last.said = <<ValidationPrompt>>
       ELSE /\ Called("playstore_app_exists", "absent")
                  => PostState = ConfirmingAppPath(last.ev.text)
            /\ Called("playstore_app_exists", "found")
                  => PostState = ReceiveIconFile(last.ev.text)

\* C6: from ReceiveAppPath a text without '.' leaves the state unchanged,
\* reaches no existence check, and produces the validation prompt whenever
\* the handler returns Ok; a text with '.' whose existence check answered
\* advances to ConfirmingAppPath (absent) or ReceiveIconFile (found) carrying
\* exactly that text whenever the handler returns Ok; whenever the handler
\* returns Err (the prompt could not be sent) the state is unchanged and
\* nothing was said.
C6_AppPathValidation ==
    AppPathText =>
       /\ ~Contains(last.ev.text, DOT) =>
             /\ PostState = last.pre
             /\ last.calls = <<>>
             /\ last.res = "ok" => last.said = <<ValidationPrompt>>
       /\ (Contains(last.ev.text, DOT) /\ last.res = "ok") =>
             /\ Called("playstore_app_exists", "absent")
                   => PostState = ConfirmingAppPath(last.ev.text)
             /\ Called("playstore_app_exists", "found")
                   => PostState = ReceiveIconFile(last.ev.text)
             /\ Called("playstore_app_exists", "absent")
                   \/ Called("playstore_app_exists", "found")
       /\ last.res = "err" => PostState = last.pre /\ last.said = <<>>

\* a text with '.' that the store does not know has advanced the session
C6_Witness ==
    /\ AppPathText
    /\ last.res = "ok"
    /\ last.ev.text = <<97, 46, 98>>
    /\ PostState = ConfirmingAppPath(<<97, 46, 98>>)

NoChoice == last.h = "receive_creation_confirmation" /\ last.ev.data = NoAbort

ValidEvent(st, ev) ==
    IF st.tag = "Start"
    THEN ev.kind = "text" /\ ParseCommand(ev.text) # "None"
    ELSE IF st.tag \in {"ReceiveAppPath", "ReceiveIconName", "ReceiveDescription"}
    THEN ev.kind = "text"
    ELSE IF st.tag = "ReceiveIconFile"
    THEN ev.kind # "callback"
    ELSE ev.kind = "callback" /\ ev.data # ""

PipelineOps == {"get_file", "download_file"} \cup ConversionOps

\* C8: an event that is not the valid event of the state it arrives in
\* leaves the session's state unchanged and runs neither the conversion
\* pipeline nor the publisher.
C8_InvalidEventIgnored ==
    (last.chat \in Chats /\ ~ValidEvent(last.pre, last.ev)) =>
       /\ PostState = last.pre
       /\ ~Invoked(PipelineOps \cup PublisherOps)

PartialPublish ==
    /\ last.h = "receive_creation_confirmation"
    /\ Ended
    /\ Called("push", "ok")
    /\ Called("merge_request", "err") \/ Called("merge_request", "rejected")

\* C9: when the push succeeded and the merge request then fails (it is not
\* sent, or the server rejects it), the user is told something that is
\* neither the success text "Created." nor the silence of a total failure.
C9_PartialPublishReported ==
    PartialPublish => last.said # <<"Created.">> /\ last.said # <<>>

IsPrefix(p, s) == Len(p) <= Len(s) /\ SubSeq(s, 1, Len(p)) = p
IsSuffix(p, s) == Len(p) <= Len(s) /\ SubSeq(s, Len(s) - Len(p) + 1, Len(s)) = p

\* C10 as stated: the first line and the last line of every index file stay
\* in place, and a file with an empty interior (first line, last line)
\* becomes first line, new entry, last line.
C10_AsStated ==
    (idx.phase = "result" /\ Len(Lines(idx.text)) >= 2) =>
       LET ls == Lines(idx.text)
           n == Len(ls)
       IN  /\ idx.result.ok
           /\ IsPrefix(ls[1] \o <<NL>>, idx.result.text)
           /\ IsSuffix(<<NL>> \o ls[n], idx.result.text)
           /\ n = 2 => idx.result.text = Join(<<ls[1], idx.line, ls[2]>>)

\* C10: for every index file of at least three lines the insertion leaves
\* the first two lines (the header) and the last line (the footer) in place
\* and unchanged, and a file whose interior is empty (three lines) becomes
\* exactly the two header lines, the new entry, the footer.
C10_HeaderFooterKept ==
    (idx.phase = "result" /\ Len(Lines(idx.text)) >= 3) =>
       LET ls == Lines(idx.text)
           n == Len(ls)
       IN  /\ idx.result.ok
           /\ IsPrefix(ls[1] \o <<NL>> \o ls[2] \o <<NL>>, idx.result.text)
           /\ IsSuffix(<<NL>> \o ls[n], idx.result.text)
           /\ Len(Lines(idx.result.text)) \in {n, n + 1}
           /\ n = 3 => idx.result.text = Join(<<ls[1], ls[2], idx.line, ls[3]>>)

\* the entry has been inserted into the file that holds the header and the
\* footer only
C10_Witness ==
    /\ idx.phase = "result"
    /\ idx.text = Join(<<XmlDecl, IconsOpen, IconsClose>>) \o <<NL>>
    /\ idx.result.text = Join(<<XmlDecl, IconsOpen, idx.line, IconsClose>>)

\* lines i+1 .. j-1 of ls are in non-decreasing order of their lowercase text
SortedBetween(ls, i, j) ==
    \A k \in (i + 1)..(j - 2) : ~StrLess(ToLowercase(ls[k + 1]), ToLowercase(ls[k]))

\* C11 as stated: after the insertion all lines strictly between the first
\* line and the last line are in non-decreasing case-insensitive order.
C11_AsStated ==
    (idx.phase = "result" /\ idx.result.ok) =>
       LET rs == Lines(idx.result.text)
       IN  SortedBetween(rs, 1, Len(rs))

\* C11: after the insertion of an entry into a file of at least two lines,
\* the entry is a line of the result and all lines strictly between the
\* second line and the last line are in non-decreasing order under
\* case-insensitive comparison of the full line text.
C11_InteriorSorted ==
    (idx.phase = "result" /\ Len(Lines(idx.text)) >= 2) =>
       LET rs == Lines(idx.result.text)
       IN  /\ idx.result.ok
           /\ \E k \in 1..Len(rs) : rs[k] = idx.line
           /\ SortedBetween(rs, 2, Len(rs))

\* "D" has been inserted into a file that holds "c": it follows it
C11_Witness ==
    /\ idx.phase = "result"
    /\ idx.line = IconLine(<<68>>, <<97, 46, 98>>)
    /\ idx.result.text =
          Join(<<XmlDecl, IconsOpen, IconLine(<<99>>, <<109, 46, 109>>), idx.line,
                 IconsClose>>)

\* the texts that t becomes when one line equal to `line` is removed from it
\* together with one line terminator next to it
Removals(t, line) ==
    LET n == Len(line)
        starts == {p \in 1..(Len(t) - n + 1) :
                     /\ SubSeq(t, p, p + n - 1) = line
                     /\ p = 1 \/ t[p - 1] = NL
                     /\ p + n - 1 = Len(t) \/ t[p + n] = NL}
    IN  {IF p + n - 1 < Len(t)
         THEN SubSeq(t, 1, p - 1) \o SubSeq(t, p + n + 1, Len(t))
         ELSE SubSeq(t, 1, p - 2) : p \in starts}

\* C12: inserting an entry into an index file and then removing the inserted
\* line by its content gives back the original text, with its line order
\* and its trailing line terminator.
C12_RoundTrip ==
    (idx.phase = "result" /\ idx.result.ok) =>
       idx.text \in Removals(idx.result.text, idx.line)

\* the value the event ev gives the field f of a state that follows old
FromEvent(f, old, ev, v) ==
    IF f \in {"app_path", "icon_name"} THEN ev.kind = "text" /\ v = ev.text
    ELSE IF f = "file_id" THEN ev.kind = "document" /\ v = ev.file_id
    ELSE IF f = "description" THEN v = Description(ev)
    ELSE "file_id" \in DOMAIN old /\ v = VdBytes(old.file_id)

\* a step changes the state of a chat only by handling an event of that chat,
\* and every field of the new state is the old state's or comes from the event
OwnFields ==
    \A c \in Chats :
       state'[c] # state[c] =>
          /\ last'.chat = c
          /\ last'.pre = state[c]
          /\ \A f \in DOMAIN state'[c] \ {"tag"} :
                IF f \in DOMAIN state[c] THEN state'[c][f] = state[c][f]
                ELSE FromEvent(f, state[c], last'.ev, state'[c][f])

LastCallOk(op) ==
    /\ last.h = "receive_creation_confirmation"
    /\ Len(last.calls) > 0
    /\ last.calls[Len(last.calls)] = Call(op, "ok")

HasLine(text, line) == \E k \in 1..Len(Lines(text)) : Lines(text)[k] = line

\* what each publish step is given is named by the fields of the state the
\* confirming session was in: the line it inserts, the file it writes, the
\* branch it creates and selects, the message it commits with and the refspec
\* it pushes (what add_all then finds in the shared working tree is not among
\* the values the step is given)
OwnValues ==
    LET p == last.pre
        c == last.chat
    IN  /\ LastCallOk("read_xml") =>
              HasLine(loc[c].new_xml[1], IconLine(p.icon_name, p.app_path))
        /\ LastCallOk("write_vd") =>
              FileAt(wt, VdFileName(p.icon_name)) = {<<VdFileName(p.icon_name), p.vd_bytes>>}
        /\ LastCallOk("write_xml") => HasLine(wt.xml, IconLine(p.icon_name, p.app_path))
        /\ LastCallOk("branch") => BranchRefspec(p.icon_name) \in DOMAIN refs
        /\ LastCallOk("set_head") => HEAD = BranchRefspec(p.icon_name)
        /\ LastCallOk("commit") => refs[HEAD].msg = CommitMsg(p.icon_name)
        /\ LastCallOk("push") => BranchRefspec(p.icon_name) \in DOMAIN remote

MaxPixels == 3

\* Rgba<u8> samples: transparent, minimally and fully opaque; three colours
Alphas == {0, 1, 255}
Colours == {<<0, 0, 0>>, <<255, 255, 255>>, <<255, 0, 0>>}
RgbaPixels == {c \o <<a>> : c \in Colours, a \in Alphas}

Black == <<0, 0, 0>>
White == <<255, 255, 255>>

\* a pixel whose alpha must reach the middle of the range to count as opaque
HalfOpaquePixel(pixel) == IF pixel[4] >= 128 THEN Black ELSE White

\* 389-395: pixel.0[3] > 0 -> black, else white
BinarizePixel(pixel) == IF pixel[4] > 0 THEN Black ELSE White

\* 383-399: out_img has img's width and height; every (x, y) is put once
Binarize(image) ==
    [width |-> image.width, height |-> image.height,
     px |-> [xy \in (0..(image.width - 1)) \X (0..(image.height - 1)) |->
                BinarizePixel(image.px[xy])]]

BinarizeInit ==
    /\ \E w \in 1..MaxPixels, h \in 1..MaxPixels :
          /\ w * h <= MaxPixels
          /\ \E px \in [(0..(w - 1)) \X (0..(h - 1)) -> RgbaPixels] :
                img = [phase |-> "input",
                       image |-> [width |-> w, height |-> h, px |-> px],
                       out |-> <<>>]
    /\ state = [c \in Chats |-> Start]
    /\ last = NoRun
    /\ pc = [c \in Chats |-> "idle"]
    /\ loc = [c \in Chats |-> NoLoc]
    /\ Repository
    /\ budget = 0
    /\ idx = <<>>

binarize ==
    /\ img.phase = "input"
    /\ img' = [img EXCEPT !.phase = "result", !.out = Binarize(img.image)]
    /\ UNCHANGED <<state, last, pc, loc, wt, refs, HEAD, remote, budget, idx>>

BinarizeSpec == BinarizeInit /\ [][binarize]_vars

\* C14: binarize gives an image of the same dimensions in which every pixel
\* whose source alpha is above 0 (alpha 1 included) is exactly black and
\* every pixel whose source alpha is 0 is exactly white, whatever the
\* source pixel's colour.
C14_BinarizeByAlpha ==
    img.phase = "result" =>
       /\ img.out.width = img.image.width
       /\ img.out.height = img.image.height
       /\ DOMAIN img.out.px = DOMAIN img.image.px
       /\ \A xy \in DOMAIN img.image.px :
             /\ img.image.px[xy][4] > 0 => img.out.px[xy] = <<0, 0, 0>>
             /\ img.image.px[xy][4] = 0 => img.out.px[xy] = <<255, 255, 255>>

\* a white pixel of alpha 1 next to a black pixel of alpha 0 has been binarized
C14_Witness ==
    /\ img.phase = "result"
    /\ img.image.width = 2
    /\ img.image.px[<<0, 0>>] = <<255, 255, 255, 1>>
    /\ img.image.px[<<1, 0>>] = <<0, 0, 0, 0>>
    /\ img.out.px[<<0, 0>>] = <<0, 0, 0>>
    /\ img.out.px[<<1, 0>>] = <<255, 255, 255>>

(***************************************************************************)
(* The bot with users who send each state its advancing event, under fair  *)
(* scheduling of every chat's handlers and closures                        *)
(***************************************************************************)
\* the event of the step is the event that advances the state it arrives in:
\* its valid event, an app path that holds a '.', a document for the icon
Cooperative ==
    /\ ValidEvent(last'.pre, last'.ev)
    /\ last'.h = "receive_app_path" => Contains(last'.ev.text, DOT)
    /\ last'.h = "receive_icon_file" => last'.ev.kind = "document"

LiveStep(c) ==
    /\ \/ answer(c)
       \/ receive_app_path(c)
       \/ receive_app_path_confirmation(c)
       \/ receive_icon_file(c)
       \/ receive_icon_name(c)
       \/ receive_description(c)
       \/ receive_creation_confirmation(c)
       \/ read_xml(c)
       \/ write_vd(c)
       \/ write_xml(c)
       \/ open_head(c)
       \/ branch(c)
       \/ set_head(c)
       \/ add_all(c)
       \/ head2(c)
       \/ commit(c)
       \/ checkout_head(c)
       \/ push(c)
       \/ revparse(c)
       \/ checkout_tree(c)
       \/ set_head_main(c)
       \/ merge_request(c)
    /\ Cooperative

LiveNext == \E c \in Chats : LiveStep(c)

\* tokio runs every spawned handler and closure; the users keep sending
LiveSpec == Init /\ [][LiveNext]_vars /\ \A c \in Chats : WF_vars(LiveStep(c))

\* no handler has ended with an error other than that of an external call
\* (every send to the user went through), and updates are still dispatched
SendsDelivered ==
    /\ last.res = "err" =>
          last.calls # <<>> /\ last.calls[Len(last.calls)].r = "err"
    /\ budget > 0

\* C15: every session that leaves Start eventually returns to Start, under
\* fair handling of its events and fair completion of its external calls,
\* whatever the outcomes of the existence check, the conversion stages and
\* the publish steps.
C15_EventuallyIdle ==
    \A c \in Chats : []SendsDelivered => ((state[c] # Start) ~> (state[c] = Start))

\* C16: after a publish run has ended, whether it succeeded or failed at any
\* step, HEAD of the shared working tree is on the integration branch.
C16_HeadOnIntegrationBranch ==
    (YesRun /\ \A c \in Chats : pc[c] = "idle") => HEAD = MainRef

\* C17: in every sequence of publish runs each new branch is created at the
\* tip of the integration branch, and the commit made on it has that tip as
\* its only parent.
C17_BranchAtIntegrationTip ==
    (\A d \in Chats \ {last.chat} : pc[d] = "idle") =>
       /\ LastCallOk("branch") =>
             refs[BranchRefspec(last.pre.icon_name)] = refs[MainRef]
       /\ LastCallOk("commit") => refs[HEAD].parents = <<refs[MainRef]>>

\* C18: in a publish run the drawable file and the index file are written
\* only after the new branch was created and HEAD switched to it, so a run
\* that fails at opening the repository, resolving HEAD or creating the
\* branch leaves the working tree as it was.
C18_WritesAfterBranch ==
    /\ (Called("write_vd", "ok") \/ Called("write_xml", "ok")) =>
          Called("branch", "ok") /\ Called("set_head", "ok")
    /\ (Called("open_head", "err") \/ Called("branch", "err")) => wt = BaseTree

IsConversionCall(x) == x.op \in ConversionOps
\* the conversion stages the last handler run invoked, in the order of the calls
StagesRun == SelectSeq(last.calls, IsConversionCall)
StageOrder == <<"binarize", "potrace", "svg2vd">>

\* C19: the conversion stages run in the order binarize, trace, recode and a
\* failing stage ends the conversion: a stage is invoked only after every
\* stage before it succeeded, and the session enters ConfirmingCreation only
\* when all three stages succeeded.
C19_StagesInOrder ==
    last.h = "receive_description" =>
       /\ Len(StagesRun) <= 3
       /\ \A i \in 1..Len(StagesRun) : StagesRun[i].op = StageOrder[i]
       /\ \A i \in 1..(Len(StagesRun) - 1) : StagesRun[i].r = "ok"
       /\ PostState.tag = "ConfirmingCreation" =>
             Len(StagesRun) = 3 /\ StagesRun[3].r = "ok"
       /\ PostState.tag # "ConfirmingCreation" => PostState = last.pre

\* the tracer has exited with a failure: the recoder was not started
C19_Witness ==
    /\ last.h = "receive_description"
    /\ StagesRun = <<Call("binarize", "ok"), Call("potrace", "exit")>>
    /\ PostState = last.pre

PayloadFields(st) == DOMAIN st \ {"tag"}

\* C20: payload fields only accumulate: when a handler takes a session from
\* one state other than Start to another state other than Start, every
\* field of the source state is a field of the target state with the same
\* value; a field is lost only on the way to Start.
C20_FieldsOnlyAccumulate ==
    (last.chat \in Chats /\ last.pre # Start /\ PostState # Start) =>
       \A f \in PayloadFields(last.pre) :
          f \in PayloadFields(PostState) /\ PostState[f] = last.pre[f]

\* a handler run that ended with a propagated error
ErrorRun == Ended /\ last.res = "err"

\* C21: a handler writes the session state only as its last step: a step
\* changes the state of a chat only when it ends a handler run of that chat
\* with Ok, so a run that ends with a propagated error leaves the chat in the
\* state it was dispatched in, and no step changes the state of another chat.
C21_ErrorKeepsState ==
    [][/\ \A c \in Chats :
            state'[c] # state[c] => (last'.chat = c /\ last'.res = "ok")
       /\ last'.res = "err" => state'[last'.chat] = last'.pre]_vars

\* a publish run has ended with an error after the merge request was posted
\* (the closing text could not be sent), the session still in
\* ConfirmingCreation and the other session in the middle of its flow
C21_Witness ==
    /\ ErrorRun
    /\ last.h = "receive_creation_confirmation"
    /\ Called("merge_request", "created")
    /\ state[last.chat] = last.pre
    /\ last.pre.tag = "ConfirmingCreation"
    /\ \E c \in Chats : c # last.chat /\ state[c].tag = "ReceiveIconName"

====
